---- MODULE Spec2Model ----
(***************************************************************************)
(* A model of the evaluation workflows of the scikit-learn tutorial        *)
(* notebooks: the train/test split followed by a preprocessor that is fit  *)
(* on the training rows and applied to both subsets, the hand-written      *)
(* k-fold cross-validation loop, pipelines and grid search, and the        *)
(* out-of-core training loop.  Rows are identified by their index in the   *)
(* loaded array, so that "the same record" is meaningful even when two     *)
(* rows carry equal feature values.                                        *)
(***************************************************************************)
EXTENDS Integers, Sequences, FiniteSets

VARIABLES
    pc,              \* the cell (or statement) that runs next
    X,               \* the loaded feature column: row index -> value
    permutation,     \* the shuffle drawn by the random state
    split_call,      \* the train_size / test_size arguments of the split
    X_train,         \* row indices of the training subset, in order
    X_test,          \* row indices of the test subset, in order
    scaler,          \* the StandardScaler: fitted flag and stored statistics
    fit_rows,        \* the rows that were passed to scaler.fit
    X_train_scaled,  \* output of scaler.transform(X_train)
    X_test_scaled,   \* outputs of scaler.transform(X_test), one per run of the cell
    k,               \* number of folds of the manual loop
    fold,            \* loop variable of the manual k-fold loop
    masks,           \* the test masks stored by the manual k-fold loop
    classifier,      \* rows the classifier was last fit on
    scores,          \* the scores appended by the manual k-fold loop
    mode,            \* which cell sequence of the pipeline notebook runs
    text_train,      \* documents of the training subset
    text_test,       \* documents of the test subset
    estimators,      \* state of the vectorizer and of the classifier in use
    fit_calls,       \* method calls made by the latest pipeline fit
    apply_calls,     \* method calls made by the latest pipeline score / predict
    grid_X,          \* the data passed to grid.fit
    cand,            \* next parameter combination of the grid search
    split,           \* next cross-validation split of the grid search
    cv_results_,     \* one record per finished cross-validation iteration
    best_params_,    \* the combination the grid search selected
    best_estimator_, \* the model refit by the grid search
    scored_with,     \* the model that answered grid.score / grid.predict
    objects,         \* the vectorizers and classifiers of the out-of-core notebook
    call_log,        \* the transform / score calls made so far, with their outcome
    fnames,          \* the files of the training documents
    range_next,      \* the next value of range(iterations) in batch_train
    loop_i,          \* the variable i of batch_train, shared by both loops
    rnd_idx,         \* the indices drawn for the current batch
    documents,       \* the documents read for the current batch
    np_random,       \* the position of numpy's global random stream
    streams,         \* the shuffles drawn so far, by seed and position in the stream
    split_log,       \* one record per train_test_split call of the re-split cells
    y,               \* the target of every row of X
    kneighbor_regression,\* the nearest-neighbour model: fitted flag and stored training data
    y_pred_train,    \* output of kneighbor_regression.predict(X_train)
    y_pred_test,     \* output of kneighbor_regression.predict(X_test)
    corpus,          \* the documents passed to vectorizer.fit
    vocabulary_,     \* the CountVectorizer mapping from token to column index
    transform_docs,  \* the documents passed to vectorizer.transform
    missing,         \* the training files that cannot be opened
    raised,          \* the exception that left batch_train, if any
    pred_y,          \* the predicted targets handed to the scorer
    test_y,          \* the true targets handed to the scorer
    accuracy,        \* what the accuracy computations returned or raised
    ary,             \* the array of the hand-written standardization cell
    ary_standardized,\* (ary - ary.mean()) / ary.std()
    file,            \* the SMS collection file: whether it exists, and its lines split at tabs
    lines,           \* the list of field lists read from the file
    text,            \* the second field of every line
    murmurhash3,     \* the unsigned 32-bit hash of every word, as <<high half, low half>>
    sentence,        \* the words the hashing loop runs over
    printed          \* the word => index lines printed so far

vars == <<pc, X, permutation, split_call, X_train, X_test, scaler, fit_rows,
          X_train_scaled, X_test_scaled, k, fold, masks, classifier, scores,
          mode, text_train, text_test, estimators, fit_calls, apply_calls,
          grid_X, cand, split, cv_results_, best_params_, best_estimator_,
          scored_with, objects, call_log, fnames, range_next, loop_i, rnd_idx,
          documents,
          np_random, streams, split_log,
          y, kneighbor_regression, y_pred_train, y_pred_test,
          corpus, vocabulary_, transform_docs,
          missing, raised,
          pred_y, test_y, accuracy,
          ary, ary_standardized,
          file, lines, text,
          murmurhash3, sentence, printed>>

wfVars == <<X_train_scaled, X_test_scaled, scaler, fit_rows, permutation, split_call>>
kfVars == <<k, fold, masks, classifier, scores>>
gsVars == <<grid_X, cand, split, cv_results_, best_params_, best_estimator_,
            scored_with>>
plVars == <<mode, text_train, text_test, estimators, fit_calls, apply_calls,
            gsVars>>
oocVars == <<objects, call_log, fnames, range_next, loop_i, rnd_idx, documents>>
rsVars == <<np_random, streams, split_log>>
knnVars == <<y, kneighbor_regression, y_pred_train, y_pred_test>>
vocVars == <<corpus, vocabulary_, transform_docs>>
errVars == <<missing, raised>>
scVars == <<pred_y, test_y, accuracy>>
stdVars == <<ary, ary_standardized>>
ldVars == <<file, lines, text>>
hashVars == <<murmurhash3, sentence, printed>>

----------------------------------------------------------------------------
(* Bounds of the model *)

MaxRows == 4        \* largest dataset of the split/scale workflow
MaxValue == 2       \* feature values are 0..MaxValue
MaxRuns == 2        \* how often the transform(X_test) cell is re-run
MaxSamples == 7     \* largest dataset of the manual k-fold loop
MaxFolds == 3       \* largest k of the manual k-fold loop
MaxDocs == 3        \* largest training corpus of the pipeline notebook
CvFolds == 2        \* cv of the grid search
NumCandidates == 2  \* parameter combinations of the grid
MaxScore == 1       \* scores are 0..MaxScore
MaxFiles == 3       \* largest number of training files of batch_train
iterations == 2     \* the iterations argument of batch_train
batchsize == 3      \* the batchsize argument of batch_train
MaxSeededRows == 3  \* largest dataset of the cells that split again
MaxKnnRows == 3     \* largest dataset of the nearest-neighbour cells
MaxTokens == 2      \* the tokens of the vocabulary cells are 1..MaxTokens
MaxDocLen == 2      \* longest document of the vocabulary cells
MaxScoreLen == 4    \* longest array handed to the accuracy computations
MaxSplitRows == 10  \* largest dataset of the split taken on its own
MaxAryLen == 5      \* longest array of the hand-written standardization
MaxAryValue == 5    \* its values are 0..MaxAryValue
MaxWords == 2       \* how many different words the hashed sentence may use
MaxSentenceLen == 3 \* most words of the hashed sentence
MaxLines == 3       \* most lines of the SMS collection file
MaxFields == 3      \* most tab-separated fields of a line

----------------------------------------------------------------------------
(* Helpers on sequences *)

Range(s) == {s[i] : i \in DOMAIN s}

Shuffles(n) ==
    {p \in [1..n -> 1..n] : \A i, j \in 1..n : p[i] = p[j] => i = j}

RECURSIVE SumOver(_, _)
SumOver(f, s) ==
    IF s = <<>> THEN 0 ELSE f[Head(s)] + SumOver(f, Tail(s))

RECURSIVE SumSqOver(_, _)
SumSqOver(f, s) ==
    IF s = <<>> THEN 0 ELSE f[Head(s)] * f[Head(s)] + SumSqOver(f, Tail(s))

\* ceil(num * n / den) and floor(num * n / den) for a fraction num/den
CeilFrac(num, den, n) == (num * n + den - 1) \div den
FloorFrac(num, den, n) == (num * n) \div den

----------------------------------------------------------------------------
(* The split / scale workflow: train_test_split, scaler.fit(X_train),      *)
(* scaler.transform(X_train), scaler.transform(X_test).                    *)

\* The argument sets the notebooks pass: train_size=0.5, test_size=0.5, and
\* the default call, which holds out a quarter of the rows.
SplitCalls ==
    { [train_size |-> <<1, 2>>, test_size |-> <<1, 2>>],
      [train_size |-> <<>>,     test_size |-> <<1, 4>>] }

\* a split whose training part starts one row early
TrainTestSplitOverlap(n, perm, call) ==
    LET n_test  == CeilFrac(call.test_size[1], call.test_size[2], n)
    IN  [test  |-> SubSeq(perm, 1, n_test),
         train |-> SubSeq(perm, n_test, n)]

\* a split that ignores the requested sizes and always holds out a quarter
TrainTestSplitDefaultSizes(n, perm, call) ==
    LET n_test == CeilFrac(1, 4, n)
    IN  [test  |-> SubSeq(perm, 1, n_test),
         train |-> SubSeq(perm, n_test + 1, n)]

\* train_test_split: the rows are shuffled, then cut into a test part and a
\* training part of the requested sizes.
TrainTestSplit(n, perm, call) ==
    LET n_test  == CeilFrac(call.test_size[1], call.test_size[2], n)
        n_train == IF call.train_size = <<>>   \* train_size=None
                   THEN n - n_test
                   ELSE FloorFrac(call.train_size[1], call.train_size[2], n)
    IN  [test  |-> SubSeq(perm, 1, n_test),
         train |-> SubSeq(perm, n_test + 1, n_test + n_train)]

NotFitted == [fitted |-> FALSE]

\* scaler.fit: estimates the mean and the standard deviation of the rows it
\* is given.  The statistics are kept exactly: the mean is sum / n and the
\* variance is var_num / n^2.
ScalerFit(data, rows) ==
    [fitted   |-> TRUE,
     n        |-> Len(rows),
     sum      |-> SumOver(data, rows),
     var_num  |-> Len(rows) * SumSqOver(data, rows)
                    - SumOver(data, rows) * SumOver(data, rows)]

\* x / std: the mean is not subtracted
StandardizeUncentered(x, params) ==
    [num |-> params.n * x, den2 |-> params.var_num]

\* (x - mean) / std for one value, kept exact as num / sqrt(den2)
Standardize(x, params) ==
    [num |-> params.n * x - params.sum, den2 |-> params.var_num]

\* scaler.transform: maps every row through the stored statistics
ScalerTransform(params, data, rows) ==
    [i \in DOMAIN rows |-> Standardize(data[rows[i]], params)]

\* a transform that re-estimates the statistics from the rows it is given
ParamsRefit(params, data, rows) == ScalerFit(data, rows)

\* the statistics the scaler holds after transform has run
ParamsAfterTransform(params, data, rows) == params

\* a fit that is handed every row of the dataset
FitInputAll(train, test) == train \o test

\* the rows the notebook hands to scaler.fit
FitInput(train, test) == train

InitWorkflow ==
    /\ pc = "split"
    /\ \E n \in 2..MaxRows :
          /\ X \in [1..n -> 0..MaxValue]
          /\ permutation \in Shuffles(n)
    /\ split_call \in SplitCalls
    /\ X_train = <<>>
    /\ X_test = <<>>
    /\ scaler = NotFitted
    /\ fit_rows = <<>>
    /\ X_train_scaled = <<>>
    /\ X_test_scaled = <<>>

IdleKFold ==
    /\ k = 0
    /\ fold = 0
    /\ masks = <<>>
    /\ classifier = <<>>
    /\ scores = <<>>

Unfitted == [fitted |-> FALSE, seen |-> [rows |-> <<>>, via |-> <<>>], C |-> 0]

IdlePipeline ==
    /\ mode = "none"
    /\ text_train = <<>>
    /\ text_test = <<>>
    /\ estimators = <<>>
    /\ fit_calls = <<>>
    /\ apply_calls = <<>>
    /\ grid_X = <<>>
    /\ cand = 0
    /\ split = 0
    /\ cv_results_ = <<>>
    /\ best_params_ = 0
    /\ best_estimator_ = <<>>
    /\ scored_with = <<>>

IdleOutOfCore ==
    /\ objects = <<>>
    /\ call_log = <<>>
    /\ fnames = <<>>
    /\ range_next = 0
    /\ loop_i = 0
    /\ rnd_idx = <<>>
    /\ documents = <<>>

IdleRandomState ==
    /\ np_random = 0
    /\ streams = {}
    /\ split_log = <<>>

IdleKnn ==
    /\ y = <<>>
    /\ kneighbor_regression = [fitted |-> FALSE]
    /\ y_pred_train = <<>>
    /\ y_pred_test = <<>>

IdleVocabulary ==
    /\ corpus = <<>>
    /\ vocabulary_ = <<>>
    /\ transform_docs = <<>>

IdleErrors ==
    /\ missing = {}
    /\ raised = <<>>

IdleScorer ==
    /\ pred_y = <<>>
    /\ test_y = <<>>
    /\ accuracy = <<>>

IdleStandardize ==
    /\ ary = <<>>
    /\ ary_standardized = <<>>

IdleLoader ==
    /\ file = <<>>
    /\ lines = <<>>
    /\ text = <<>>

IdleHashing ==
    /\ murmurhash3 = <<>>
    /\ sentence = <<>>
    /\ printed = <<>>

Init ==
    /\ InitWorkflow
    /\ IdleKFold
    /\ IdlePipeline
    /\ IdleOutOfCore
    /\ IdleHashing
    /\ IdleLoader
    /\ IdleStandardize
    /\ IdleScorer
    /\ IdleErrors
    /\ IdleVocabulary
    /\ IdleRandomState
    /\ IdleKnn

SplitCell ==
    /\ pc = "split"
    /\ LET parts == TrainTestSplit(Len(X), permutation, split_call)
       IN  /\ X_train' = parts.train
           /\ X_test' = parts.test
    /\ pc' = "fit"
    /\ UNCHANGED <<X, wfVars, kfVars, plVars, oocVars, rsVars, knnVars, vocVars, errVars, scVars, stdVars, ldVars, hashVars>>

FitCell ==
    /\ pc = "fit"
    /\ scaler' = ScalerFit(X, FitInput(X_train, X_test))
    /\ fit_rows' = FitInput(X_train, X_test)
    /\ pc' = "transform_train"
    /\ UNCHANGED <<X, X_train, X_test, permutation, split_call,
                   X_train_scaled, X_test_scaled, kfVars, plVars, oocVars, rsVars, knnVars, vocVars, errVars, scVars, stdVars, ldVars, hashVars>>

TransformTrainCell ==
    /\ pc = "transform_train"
    /\ X_train_scaled' = ScalerTransform(scaler, X, X_train)
    /\ scaler' = ParamsAfterTransform(scaler, X, X_train)
    /\ pc' = "transform_test"
    /\ UNCHANGED <<X, X_train, X_test, permutation, split_call,
                   fit_rows, X_test_scaled, kfVars, plVars, oocVars, rsVars, knnVars, vocVars, errVars, scVars, stdVars, ldVars, hashVars>>

\* the cell may be run again; every output is kept
TransformTestCell ==
    /\ pc = "transform_test"
    /\ Len(X_test_scaled) < MaxRuns
    /\ X_test_scaled' = Append(X_test_scaled, ScalerTransform(scaler, X, X_test))
    /\ scaler' = ParamsAfterTransform(scaler, X, X_test)
    /\ UNCHANGED <<pc, X, X_train, X_test, permutation, split_call,
                   fit_rows, X_train_scaled, kfVars, plVars, oocVars, rsVars, knnVars, vocVars, errVars, scVars, stdVars, ldVars, hashVars>>

Next == SplitCell \/ FitCell \/ TransformTrainCell \/ TransformTestCell

Spec == Init /\ [][Next]_vars

----------------------------------------------------------------------------
(* Properties of the split / scale workflow *)

Rows == DOMAIN X

IsInjective(s) == \A i, j \in DOMAIN s : s[i] = s[j] => i = j

\* C1: once the split has run, no row is in both train and test and every
\* row of the dataset is in one of them.
C1_SplitIsPartition ==
    pc # "split" =>
        /\ Range(X_train) \cap Range(X_test) = {}
        /\ Range(X_train) \cup Range(X_test) = Rows
        /\ IsInjective(X_train)
        /\ IsInjective(X_test)

\* a split of an odd number of rows, where the two sizes are rounded
C1_Witness ==
    /\ pc = "fit"
    /\ Len(X) = 3
    /\ X_train # <<>>
    /\ X_test # <<>>

\* the shuffles of n rows that rotate them: row r moves to the front
Rotations(n) == {[i \in 1..n |-> ((i + r - 1) % n) + 1] : r \in 0..(n - 1)}

\* train_test_split(X, y, train_size=0.5, test_size=0.5, random_state=123)
\* on datasets of up to MaxSplitRows rows; no scaler follows the split
InitSplitSizes ==
    /\ pc = "split"
    /\ \E n \in 2..MaxSplitRows :
          /\ X = [i \in 1..n |-> 0]
          /\ permutation \in Rotations(n)
    /\ split_call \in SplitCalls
    /\ X_train = <<>>
    /\ X_test = <<>>
    /\ scaler = NotFitted
    /\ fit_rows = <<>>
    /\ X_train_scaled = <<>>
    /\ X_test_scaled = <<>>
    /\ IdleKFold
    /\ IdlePipeline
    /\ IdleOutOfCore
    /\ IdleHashing
    /\ IdleLoader
    /\ IdleStandardize
    /\ IdleScorer
    /\ IdleErrors
    /\ IdleVocabulary
    /\ IdleRandomState
    /\ IdleKnn

NextSplitSizes == SplitCell

SpecSplitSizes == InitSplitSizes /\ [][NextSplitSizes]_vars

\* C22: splitting a dataset of 10 records with train_size=0.5 (and
\* test_size=0.5) gives exactly 5 training records and 5 test records.
C22_HalfOfTenIsFive ==
    (pc = "fit" /\ Len(X) = 10 /\ split_call.train_size = <<1, 2>>) =>
        /\ Len(X_train) = 5
        /\ Len(X_test) = 5

\* ten records were split in halves after a shuffle that is not the identity
C22_Witness ==
    /\ pc = "fit"
    /\ Len(X) = 10
    /\ split_call.train_size = <<1, 2>>
    /\ permutation[1] # 1
    /\ Len(X_train) = 5
    /\ Len(X_test) = 5

\* C2: the statistics the scaler stores come from training rows only; no
\* row of the test subset was passed to fit.
C2_FitOnTrainOnly ==
    scaler.fitted =>
        /\ Range(fit_rows) \cap Range(X_test) = {}
        /\ Range(fit_rows) \subseteq Range(X_train)
        /\ scaler = ScalerFit(X, X_train)

\* the scaler is fitted, the test subset is not empty and its statistics
\* differ from those of the training subset
C2_Witness ==
    /\ scaler.fitted
    /\ X_test # <<>>
    /\ ScalerFit(X, X_test) # scaler
    /\ X_test_scaled # <<>>

----------------------------------------------------------------------------
(* The manual k-fold loop of the cross-validation notebook.  Rows are      *)
(* numbered from 0 as in the notebook; their feature values play no part   *)
(* in the loop.                                                            *)

n_samples == Cardinality(DOMAIN X)

\* fold_size = n_samples // k
fold_size(n, folds) == n \div folds

\* test_mask = zeros(n); test_mask[f * size : (f + 1) * size] = True
TestMask(n, size, f) ==
    [i \in 0..(n - 1) |-> f * size <= i /\ i < (f + 1) * size]

\* X[mask]: the rows whose mask entry is True, in index order
RECURSIVE SelectFrom(_, _, _)
SelectFrom(mask, i, n) ==
    IF i >= n THEN <<>>
    ELSE (IF mask[i] THEN <<i>> ELSE <<>>) \o SelectFrom(mask, i + 1, n)

Select(mask) == SelectFrom(mask, 0, Cardinality(DOMAIN mask))

\* the mask used as it is, without the ~
SameMask(mask) == mask

\* ~mask
Negate(mask) == [i \in DOMAIN mask |-> ~mask[i]]

\* classifier.fit(X_train, y_train): the parameters learned from the
\* training rows, written as the rows themselves
ClassifierFit(train) == train

\* a score that fits the classifier again, on the rows it is scored on
ClassifierRefitOnScore(params, test) == ClassifierFit(test)

\* the parameters after classifier.score(X_test, y_test): unchanged
ClassifierAfterScore(params, test) == params

IdleWorkflow ==
    /\ permutation = <<>>
    /\ split_call = [train_size |-> <<>>, test_size |-> <<>>]
    /\ scaler = NotFitted
    /\ fit_rows = <<>>
    /\ X_train_scaled = <<>>
    /\ X_test_scaled = <<>>

InitKFold ==
    /\ pc = "loop"
    /\ k \in 2..MaxFolds
    /\ \E n \in k..MaxSamples : X = [i \in 0..(n - 1) |-> 0]
    /\ fold = 0
    /\ masks = <<>>
    /\ scores = <<>>
    /\ classifier = <<>>
    /\ X_train = <<>>
    /\ X_test = <<>>
    /\ IdleWorkflow
    /\ IdlePipeline
    /\ IdleOutOfCore
    /\ IdleHashing
    /\ IdleLoader
    /\ IdleStandardize
    /\ IdleScorer
    /\ IdleErrors
    /\ IdleVocabulary
    /\ IdleKnn
    /\ IdleRandomState

\* one pass through the body of "for fold in range(k)"; the score is the
\* fraction of the test rows the classifier gets right
LoopBody ==
    /\ pc = "loop"
    /\ fold < k
    /\ LET test_mask == TestMask(n_samples, fold_size(n_samples, k), fold)
       IN  /\ masks' = Append(masks, test_mask)
           /\ X_test' = Select(test_mask)
           /\ X_train' = Select(Negate(test_mask))
           /\ classifier' = ClassifierAfterScore(
                                ClassifierFit(Select(Negate(test_mask))),
                                Select(test_mask))
           /\ \E correct \in 0..Len(Select(test_mask)) :
                 scores' = Append(scores, <<correct, Len(Select(test_mask))>>)
    /\ fold' = fold + 1
    /\ UNCHANGED <<pc, X, k, wfVars, plVars, oocVars, rsVars, knnVars, vocVars, errVars, scVars, stdVars, ldVars, hashVars>>

LoopExit ==
    /\ pc = "loop"
    /\ fold = k
    /\ pc' = "done"
    /\ UNCHANGED <<X, X_train, X_test, kfVars, wfVars, plVars, oocVars, rsVars, knnVars, vocVars, errVars, scVars, stdVars, ldVars, hashVars>>

NextKFold == LoopBody \/ LoopExit

SpecKFold == InitKFold /\ [][NextKFold]_vars

\* the number of folds whose test mask holds row i
TimesTested(i) == Cardinality({f \in DOMAIN masks : masks[f][i]})

\* C13 as stated: once the classifier has been fit, its parameters never
\* change again.
C13_FittedNeverChanges ==
    [][classifier # <<>> => classifier' = classifier]_vars

\* C13, amended: the parameters of the classifier change only when a pass
\* of the loop fits it again, and they are then the ones learned from that
\* pass's training rows; score and the end of the loop leave them alone.
C13_ChangesOnlyByFit ==
    [][/\ classifier' # classifier =>
            fold' = fold + 1 /\ classifier' = ClassifierFit(X_train')
       /\ fold' = fold => classifier' = classifier
       /\ fold' = fold + 1 => classifier' = ClassifierFit(X_train')]_vars

\* the classifier has been fit in a second pass, on other rows than in the
\* first pass, and the loop has ended
C13_Witness ==
    /\ pc = "done"
    /\ Len(masks) >= 2
    /\ classifier = X_train
    /\ classifier # ClassifierFit(Select(Negate(masks[1])))

\* C24: after every pass of the loop the training rows and the test rows of
\* that pass have no row in common and together are all n rows, each once:
\* the test rows are the rows of the pass's mask and the training rows are
\* all the others.
C24_TrainIsComplementOfTest ==
    fold > 0 =>
        /\ Range(X_test) = {i \in DOMAIN X : masks[fold][i]}
        /\ Range(X_train) = {i \in DOMAIN X : ~masks[fold][i]}
        /\ Range(X_train) \cap Range(X_test) = {}
        /\ Range(X_train) \cup Range(X_test) = DOMAIN X
        /\ Len(X_train) + Len(X_test) = n_samples

\* the second pass has run on a dataset that k does not divide, and both
\* parts have rows
C24_Witness ==
    /\ fold = 2
    /\ n_samples % k # 0
    /\ X_test # <<>>
    /\ X_train # <<>>
    /\ Range(X_train) = DOMAIN X \ Range(X_test)

----------------------------------------------------------------------------
(* The pipeline notebook: the manual vectorize / fit / score cell, the     *)
(* same steps as a pipeline, and grid search with cross-validation over a  *)
(* classifier on pre-vectorized data and over the whole pipeline.          *)
(* A dataset is a sequence of rows together with the fit sets of the       *)
(* transformers it has been mapped through.                                *)

PipelineSteps == <<"tfidfvectorizer", "logisticregression">>

StepNames == Range(PipelineSteps)

Raw(rows) == [rows |-> rows, via |-> <<>>]

\* clone(estimator) with the candidate's C set on the classifier
Clone(c) ==
    [s \in StepNames |->
        IF s = "logisticregression" THEN [Unfitted EXCEPT !.C = c] ELSE Unfitted]

\* step.fit(data): the step learns its parameters from data
FitStep(st, data) == [st EXCEPT !.fitted = TRUE, !.seen = data]

\* step.transform(data): a new representation made with the step's parameters
TransformStep(st, data) ==
    [rows |-> data.rows, via |-> Append(data.via, Range(st.seen.rows))]

Call(step, method, input, output) ==
    [step |-> step, method |-> method, input |-> input, output |-> output]

\* a pipeline fit that hands the untransformed data to the next step
RECURSIVE PipelineFitRawFrom(_, _, _, _, _)
PipelineFitRawFrom(steps, i, est, data, calls) ==
    LET fitted == FitStep(est[steps[i]], data)
        now    == [est EXCEPT ![steps[i]] = fitted]
    IN  IF i = Len(steps)
        THEN [est |-> now,
              calls |-> Append(calls, Call(steps[i], "fit", data, fitted))]
        ELSE PipelineFitRawFrom(steps, i + 1, now, data,
                 calls \o <<Call(steps[i], "fit", data, fitted),
                            Call(steps[i], "transform", data,
                                 TransformStep(fitted, data))>>)

\* pipeline.fit: each step in turn is fit, its transform output feeds the
\* next step, and the last step is only fit
RECURSIVE PipelineFitFrom(_, _, _, _, _)
PipelineFitFrom(steps, i, est, data, calls) ==
    LET fitted == FitStep(est[steps[i]], data)
        now    == [est EXCEPT ![steps[i]] = fitted]
        out    == TransformStep(fitted, data)
    IN  IF i = Len(steps)
        THEN [est |-> now,
              calls |-> Append(calls, Call(steps[i], "fit", data, fitted))]
        ELSE PipelineFitFrom(steps, i + 1, now, out,
                 calls \o <<Call(steps[i], "fit", data, fitted),
                            Call(steps[i], "transform", data, out)>>)

PipelineFitRaw(steps, est, data) == PipelineFitRawFrom(steps, 1, est, data, <<>>)

PipelineFit(steps, est, data) == PipelineFitFrom(steps, 1, est, data, <<>>)

\* a pipeline score that calls fit and transform on every non-final step
RECURSIVE PipelineApplyRefitFrom(_, _, _, _, _, _)
PipelineApplyRefitFrom(steps, i, est, data, method, calls) ==
    IF i = Len(steps)
    THEN [est |-> est, scored |-> data,
          calls |-> Append(calls, Call(steps[i], method, data, <<>>))]
    ELSE LET fitted == FitStep(est[steps[i]], data)
             out    == TransformStep(fitted, data)
         IN  PipelineApplyRefitFrom(steps, i + 1,
                 [est EXCEPT ![steps[i]] = fitted], out, method,
                 calls \o <<Call(steps[i], "fit", data, fitted),
                            Call(steps[i], "transform", data, out)>>)

\* pipeline.score / pipeline.predict: only transform on every non-final
\* step, then score / predict on the last step with the new representation
RECURSIVE PipelineApplyFrom(_, _, _, _, _, _)
PipelineApplyFrom(steps, i, est, data, method, calls) ==
    IF i = Len(steps)
    THEN [est |-> est, scored |-> data,
          calls |-> Append(calls, Call(steps[i], method, data, <<>>))]
    ELSE LET out == TransformStep(est[steps[i]], data)
         IN  PipelineApplyFrom(steps, i + 1, est, out, method,
                 Append(calls, Call(steps[i], "transform", data, out)))

PipelineApplyRefit(steps, est, data, method) ==
    PipelineApplyRefitFrom(steps, 1, est, data, method, <<>>)

PipelineApply(steps, est, data, method) ==
    PipelineApplyFrom(steps, 1, est, data, method, <<>>)

\* data[idx]: the rows of a dataset at the given 0-based positions
Take(data, idx) ==
    [rows |-> [i \in DOMAIN idx |-> data.rows[idx[i] + 1]], via |-> data.via]

\* a cross-validation iteration that trains on every row passed to grid.fit
CvTrainDataAll(data, train_idx, test_idx) == data

\* the rows a cross-validation iteration trains on: the training folds
CvTrainData(data, train_idx, test_idx) == Take(data, train_idx)

\* a refit on the training folds of the last split only
RefitDataLastFold(data, results) ==
    [rows |-> results[Len(results)].train, via |-> data.via]

\* the rows the final model is fit on: all data passed to grid.fit
RefitData(data, results) == data

RECURSIVE TotalScore(_, _)
TotalScore(results, c) ==
    IF results = <<>> THEN 0
    ELSE (IF Head(results).params = c THEN Head(results).score ELSE 0)
         + TotalScore(Tail(results), c)

\* the combination with the best mean test score (the first one on a tie)
BestCandidate(results) ==
    CHOOSE c \in 1..NumCandidates :
        \A d \in 1..NumCandidates :
            /\ TotalScore(results, c) >= TotalScore(results, d)
            /\ TotalScore(results, c) = TotalScore(results, d) => c <= d

\* the estimator handed to GridSearchCV: the classifier alone, or the pipeline
GridSteps ==
    IF mode = "grid_pipeline" THEN PipelineSteps ELSE <<"logisticregression">>

InitPipeline ==
    /\ pc = "start"
    /\ mode \in {"manual", "pipeline", "grid_on_vectorized", "grid_pipeline"}
    /\ \E m \in CvFolds..MaxDocs :
          /\ text_train = [i \in 1..m |-> i - 1]
          /\ text_test = <<m, m + 1>>
    /\ estimators = Clone(1)
    /\ X = <<>>
    /\ X_train = <<>>
    /\ X_test = <<>>
    /\ fit_calls = <<>>
    /\ apply_calls = <<>>
    /\ grid_X = <<>>
    /\ cand = 0
    /\ split = 0
    /\ cv_results_ = <<>>
    /\ best_params_ = 0
    /\ best_estimator_ = <<>>
    /\ scored_with = <<>>
    /\ IdleWorkflow
    /\ IdleKFold
    /\ IdleOutOfCore
    /\ IdleHashing
    /\ IdleLoader
    /\ IdleStandardize
    /\ IdleScorer
    /\ IdleErrors
    /\ IdleVocabulary
    /\ IdleKnn
    /\ IdleRandomState

\* vectorizer.fit(text_train)
VectorizerFitCell ==
    /\ pc = "start"
    /\ mode \in {"manual", "grid_on_vectorized"}
    /\ estimators' = [estimators EXCEPT
           !["tfidfvectorizer"] = FitStep(@, Raw(text_train))]
    /\ pc' = "vectorizer_fitted"
    /\ UNCHANGED <<X, X_train, X_test, mode, text_train, text_test, fit_calls,
                   apply_calls, gsVars, wfVars, kfVars, oocVars, rsVars, knnVars, vocVars, errVars, scVars, stdVars, ldVars, hashVars>>

\* X_train = vectorizer.transform(text_train)
VectorizeTrainCell ==
    /\ pc = "vectorizer_fitted"
    /\ X_train' = TransformStep(estimators["tfidfvectorizer"], Raw(text_train))
    /\ pc' = "train_vectorized"
    /\ UNCHANGED <<X, X_test, plVars, wfVars, kfVars, oocVars, rsVars, knnVars, vocVars, errVars, scVars, stdVars, ldVars, hashVars>>

\* X_test = vectorizer.transform(text_test)
VectorizeTestCell ==
    /\ pc = "train_vectorized"
    /\ X_test' = TransformStep(estimators["tfidfvectorizer"], Raw(text_test))
    /\ pc' = "vectorized"
    /\ UNCHANGED <<X, X_train, plVars, wfVars, kfVars, oocVars, rsVars, knnVars, vocVars, errVars, scVars, stdVars, ldVars, hashVars>>

\* clf.fit(X_train, y_train)
ClfFitCell ==
    /\ pc = "vectorized"
    /\ mode = "manual"
    /\ estimators' = [estimators EXCEPT
           !["logisticregression"] = FitStep(@, X_train)]
    /\ pc' = "fitted"
    /\ UNCHANGED <<X, X_train, X_test, mode, text_train, text_test, fit_calls,
                   apply_calls, gsVars, wfVars, kfVars, oocVars, rsVars, knnVars, vocVars, errVars, scVars, stdVars, ldVars, hashVars>>

\* a score cell that runs as soon as the data is vectorized, before clf.fit
ClfScoreCellBeforeFit ==
    /\ pc = "vectorized"
    /\ mode = "manual"
    /\ apply_calls' = <<Call("logisticregression", "score", X_test, <<>>)>>
    /\ pc' = "done"
    /\ UNCHANGED <<X, X_train, X_test, mode, text_train, text_test, estimators,
                   fit_calls, gsVars, wfVars, kfVars, oocVars, rsVars, knnVars,
                   vocVars, errVars, scVars, stdVars, ldVars, hashVars>>

\* clf.score(X_test, y_test)
ClfScoreCell ==
    /\ pc = "fitted"
    /\ mode = "manual"
    /\ apply_calls' = <<Call("logisticregression", "score", X_test, <<>>)>>
    /\ pc' = "done"
    /\ UNCHANGED <<X, X_train, X_test, mode, text_train, text_test, estimators,
                   fit_calls, gsVars, wfVars, kfVars, oocVars, rsVars, knnVars, vocVars, errVars, scVars, stdVars, ldVars, hashVars>>

\* pipeline.fit(text_train, y_train)
PipelineFitCell ==
    /\ pc = "start"
    /\ mode = "pipeline"
    /\ LET r == PipelineFit(PipelineSteps, estimators, Raw(text_train))
       IN  /\ estimators' = r.est
           /\ fit_calls' = r.calls
    /\ pc' = "fitted"
    /\ UNCHANGED <<X, X_train, X_test, mode, text_train, text_test,
                   apply_calls, gsVars, wfVars, kfVars, oocVars, rsVars, knnVars, vocVars, errVars, scVars, stdVars, ldVars, hashVars>>

\* pipeline.score(text_test, y_test), or pipeline.predict(text_test)
PipelineApplyCell ==
    /\ pc = "fitted"
    /\ mode = "pipeline"
    /\ \E method \in {"score", "predict"} :
          LET r == PipelineApply(PipelineSteps, estimators, Raw(text_test), method)
          IN  /\ estimators' = r.est
              /\ apply_calls' = r.calls
    /\ pc' = "done"
    /\ UNCHANGED <<X, X_train, X_test, mode, text_train, text_test, fit_calls,
                   gsVars, wfVars, kfVars, oocVars, rsVars, knnVars, vocVars, errVars, scVars, stdVars, ldVars, hashVars>>

\* grid.fit(...) is entered: on the vectorized X_train, or on the raw text
GridFitEnter ==
    /\ \/ /\ mode = "grid_on_vectorized"
          /\ pc = "vectorized"
          /\ grid_X' = X_train
       \/ /\ mode = "grid_pipeline"
          /\ pc = "start"
          /\ grid_X' = Raw(text_train)
    /\ cand' = 1
    /\ split' = 0
    /\ pc' = "cv"
    /\ UNCHANGED <<X, X_train, X_test, mode, text_train, text_test, estimators,
                   fit_calls, apply_calls, cv_results_, best_params_,
                   best_estimator_, scored_with, wfVars, kfVars, oocVars, rsVars, knnVars, vocVars, errVars, scVars, stdVars, ldVars, hashVars>>

\* one cross-validation iteration of grid.fit: a clone with the candidate's
\* parameters is fit on the training folds and scored on the held-out fold
GridCvIteration ==
    /\ pc = "cv"
    /\ cand <= NumCandidates
    /\ LET m         == Len(grid_X.rows)
           test_mask == TestMask(m, fold_size(m, CvFolds), split)
           test_idx  == Select(test_mask)
           train_idx == Select(Negate(test_mask))
           trainData == CvTrainData(grid_X, train_idx, test_idx)
           testData  == Take(grid_X, test_idx)
           fitted    == PipelineFit(GridSteps, Clone(cand), trainData)
           applied   == PipelineApply(GridSteps, fitted.est, testData, "score")
       IN  /\ fit_calls' = fitted.calls
           /\ apply_calls' = applied.calls
           /\ \E sc \in 0..MaxScore :
                 cv_results_' = Append(cv_results_,
                     [params |-> cand, split |-> split,
                      train |-> trainData.rows, test |-> testData.rows,
                      scored |-> applied.scored, score |-> sc])
    /\ IF split + 1 < CvFolds
       THEN split' = split + 1 /\ cand' = cand
       ELSE split' = 0 /\ cand' = cand + 1
    /\ UNCHANGED <<pc, X, X_train, X_test, mode, text_train, text_test,
                   estimators, grid_X, best_params_, best_estimator_,
                   scored_with, wfVars, kfVars, oocVars, rsVars, knnVars, vocVars, errVars, scVars, stdVars, ldVars, hashVars>>

\* the end of grid.fit: the best combination is selected and one new model
\* is fit with it on all the data passed to fit
GridRefit ==
    /\ pc = "cv"
    /\ cand > NumCandidates
    /\ best_params_' = BestCandidate(cv_results_)
    /\ LET r == PipelineFit(GridSteps, Clone(BestCandidate(cv_results_)),
                            RefitData(grid_X, cv_results_))
       IN  /\ best_estimator_' = r.est
           /\ fit_calls' = r.calls
    /\ pc' = "grid_fitted"
    /\ UNCHANGED <<X, X_train, X_test, mode, text_train, text_test, estimators,
                   apply_calls, grid_X, cand, split, cv_results_, scored_with,
                   wfVars, kfVars, oocVars, rsVars, knnVars, vocVars, errVars, scVars, stdVars, ldVars, hashVars>>

\* grid.score(...) or grid.predict(...) on the test subset
GridApplyCell ==
    /\ pc = "grid_fitted"
    /\ \E method \in {"score", "predict"} :
          LET model == best_estimator_
              input == IF mode = "grid_pipeline" THEN Raw(text_test) ELSE X_test
          IN  /\ scored_with' = model
              /\ apply_calls' = PipelineApply(GridSteps, model, input, method).calls
    /\ pc' = "done"
    /\ UNCHANGED <<X, X_train, X_test, mode, text_train, text_test, estimators,
                   fit_calls, grid_X, cand, split, cv_results_, best_params_,
                   best_estimator_, wfVars, kfVars, oocVars, rsVars, knnVars, vocVars, errVars, scVars, stdVars, ldVars, hashVars>>

NextPipeline ==
    \/ VectorizerFitCell
    \/ VectorizeTrainCell
    \/ VectorizeTestCell
    \/ ClfFitCell
    \/ ClfScoreCell
    \/ PipelineFitCell
    \/ PipelineApplyCell
    \/ GridFitEnter
    \/ GridCvIteration
    \/ GridRefit
    \/ GridApplyCell

SpecPipeline == InitPipeline /\ [][NextPipeline]_vars

----------------------------------------------------------------------------
(* Properties of the pipeline notebook *)

\* the steps of the estimator whose fit / score was called last
UsedSteps ==
    IF mode \in {"pipeline", "grid_pipeline"}
    THEN PipelineSteps
    ELSE <<"logisticregression">>

\* C6: with the pipeline inside the grid search, in every cross-validation
\* iteration the vectorizer that produced the scored representation was fit
\* on the training folds only; no held-out document is among its fit set.
C6_NoFoldContamination ==
    mode = "grid_pipeline" =>
        \A j \in DOMAIN cv_results_ :
            LET r == cv_results_[j]
            IN  /\ r.scored.rows = r.test
                /\ Len(r.scored.via) = 1
                /\ r.scored.via[1] = Range(r.train)
                /\ r.scored.via[1] \cap Range(r.test) = {}

\* every cross-validation iteration of the grid search over the pipeline ran
C6_Witness ==
    /\ mode = "grid_pipeline"
    /\ Len(cv_results_) = NumCandidates * CvFolds
    /\ \A j \in DOMAIN cv_results_ : cv_results_[j].test # <<>>

\* C15: in the manual cell the stages run in order, each on the finished
\* result of the one before: the vectorizer is fit on the training side of
\* the split, then it transforms the training and the test documents, then
\* the classifier is fit on the transformed training data, and only then
\* is it scored on the transformed test data.
C15_StagesInOrder ==
    mode = "manual" =>
        LET vec == estimators["tfidfvectorizer"]
            clf == estimators["logisticregression"]
        IN  /\ pc = "start" =>
                  /\ ~vec.fitted
                  /\ X_train = <<>>
            /\ vec.fitted =>
                  /\ vec.seen = Raw(text_train)
                  /\ Range(vec.seen.rows) \cap Range(text_test) = {}
            /\ X_train # <<>> =>
                  /\ vec.fitted
                  /\ X_train = TransformStep(vec, Raw(text_train))
            /\ X_train = <<>> => X_test = <<>>
            /\ X_test # <<>> => X_test = TransformStep(vec, Raw(text_test))
            /\ X_test = <<>> => ~clf.fitted
            /\ clf.fitted => clf.seen = X_train
            /\ ~clf.fitted => apply_calls = <<>>
            /\ apply_calls # <<>> =>
                  /\ pc = "done"
                  /\ apply_calls =
                        <<Call("logisticregression", "score", X_test, <<>>)>>

\* the manual cell has run to its end: the classifier has been scored
C15_Witness ==
    /\ mode = "manual"
    /\ pc = "done"
    /\ estimators["logisticregression"].fitted
    /\ apply_calls # <<>>

\* C7: pipeline.fit handles the steps in order: each non-final step is fit
\* and then transforms the data, the output is the input of the next step's
\* fit, and on the last step only fit is called.
C7_PipelineFitOrder ==
    fit_calls # <<>> =>
        LET steps == UsedSteps
            N     == Len(steps)
        IN  /\ Len(fit_calls) = 2 * N - 1
            /\ \A i \in 1..(N - 1) :
                  /\ fit_calls[2 * i - 1].step = steps[i]
                  /\ fit_calls[2 * i - 1].method = "fit"
                  /\ fit_calls[2 * i].step = steps[i]
                  /\ fit_calls[2 * i].method = "transform"
                  /\ fit_calls[2 * i].input = fit_calls[2 * i - 1].input
                  /\ fit_calls[2 * i].output =
                        TransformStep(fit_calls[2 * i - 1].output,
                                      fit_calls[2 * i].input)
                  /\ fit_calls[2 * i + 1].input = fit_calls[2 * i].output
            /\ fit_calls[2 * N - 1].step = steps[N]
            /\ \A j \in DOMAIN fit_calls :
                  fit_calls[j].step = steps[N] => fit_calls[j].method = "fit"

\* pipeline.fit(text_train) has returned for the two-step pipeline
C7_Witness ==
    /\ mode = "pipeline"
    /\ pc = "fitted"
    /\ Len(fit_calls) = 3

\* C8: score / predict on a fitted pipeline calls only transform on every
\* non-final step and fit on none; the last step's score / predict gets the
\* transformed data, and the fitted steps stay as fit left them.
C8_PipelineApplyOrder ==
    /\ apply_calls # <<>> =>
          LET steps == UsedSteps
              N     == Len(steps)
          IN  /\ Len(apply_calls) = N
              /\ \A i \in 1..(N - 1) :
                    /\ apply_calls[i].step = steps[i]
                    /\ apply_calls[i].method = "transform"
                    /\ apply_calls[i + 1].input = apply_calls[i].output
              /\ apply_calls[N].step = steps[N]
              /\ apply_calls[N].method \in {"score", "predict"}
              /\ \A j \in DOMAIN apply_calls : apply_calls[j].method # "fit"
    /\ (mode = "pipeline" /\ pc = "done") =>
          /\ \A s \in StepNames : estimators[s].seen.rows = text_train
          /\ apply_calls[1].input = Raw(text_test)
          /\ apply_calls[1].output =
                TransformStep(estimators["tfidfvectorizer"], Raw(text_test))

\* pipeline.predict(text_test) has returned
C8_Witness ==
    /\ mode = "pipeline"
    /\ pc = "done"
    /\ apply_calls[Len(apply_calls)].method = "predict"

\* C9: grid.fit runs every cross-validation iteration first, then fits one
\* new model with the best combination on all the data it was given; score
\* and predict answer with that model.
C9_RefitAfterSearch ==
    /\ best_estimator_ = <<>> => scored_with = <<>>
    /\ scored_with # <<>> => scored_with = best_estimator_
    /\ best_estimator_ # <<>> =>
          /\ Len(cv_results_) = NumCandidates * CvFolds
          /\ \A c \in 1..NumCandidates, f \in 0..(CvFolds - 1) :
                \E j \in DOMAIN cv_results_ :
                    cv_results_[j].params = c /\ cv_results_[j].split = f
          /\ \A d \in 1..NumCandidates :
                TotalScore(cv_results_, best_params_) >= TotalScore(cv_results_, d)
          /\ \A s \in Range(GridSteps) :
                /\ best_estimator_[s].fitted
                /\ best_estimator_[s].seen.rows = grid_X.rows
          /\ best_estimator_["logisticregression"].C = best_params_

\* grid.score has answered and the best combination is not the first one
C9_Witness ==
    /\ pc = "done"
    /\ scored_with # <<>>
    /\ best_params_ = 2

----------------------------------------------------------------------------
(* The out-of-core notebook: a CountVectorizer that is fit before it       *)
(* transforms, a HashingVectorizer whose transform is called directly, and *)
(* batch_train, which feeds random batches to partial_fit.                 *)

ObjectNames == {"vectorizer", "h_vectorizer", "h_vec", "vec", "c_clf", "sgd"}

NoObject ==
    [kind |-> "none", fit_called |-> FALSE, partial_fit_calls |-> 0,
     docs_seen |-> 0]

\* a freshly constructed (or cloned) object of the given class
New(kind) == [NoObject EXCEPT !.kind = kind]

\* obj.fit(docs) with n documents
Fit(obj, n) == [obj EXCEPT !.fit_called = TRUE, !.docs_seen = n]

\* a partial_fit that forgets the batches before, as fit does
PartialFitForgets(obj, n) ==
    [obj EXCEPT !.partial_fit_calls = @ + 1, !.docs_seen = n]

\* obj.partial_fit(batch) with n documents
PartialFit(obj, n) ==
    [obj EXCEPT !.partial_fit_calls = @ + 1, !.docs_seen = @ + n]

\* a vectorizer that treats every class as one that must be fit first
StatelessNever(kind) == FALSE

\* "there is no need to fit as HashingVectorizer is a stateless transformer"
Stateless(kind) == kind = "HashingVectorizer"

\* what transform / score on obj does: it answers when obj needs no fit or
\* has been trained, and raises otherwise
Outcome(obj) ==
    IF Stateless(obj.kind) \/ obj.fit_called \/ obj.partial_fit_calls > 0
    THEN "result"
    ELSE "NotFittedError"

MethodCall(name, method, obj) ==
    [receiver |-> name, method |-> method, kind |-> obj.kind,
     fit_called |-> obj.fit_called,
     partial_fit_calls |-> obj.partial_fit_calls, outcome |-> Outcome(obj)]

\* an exception ends the run; otherwise the next statement follows
After(obj, next) == IF Outcome(obj) = "result" THEN next ELSE "raised"

InitOutOfCore ==
    /\ pc = "count_fit"
    /\ objects = [o \in ObjectNames |-> NoObject]
    /\ call_log = <<>>
    /\ \E n \in 1..MaxFiles : fnames = [j \in 1..n |-> j - 1]
    /\ range_next = 0
    /\ loop_i = 0
    /\ rnd_idx = <<>>
    /\ documents = <<>>
    /\ X = <<>>
    /\ X_train = <<>>
    /\ X_test = <<>>
    /\ IdleWorkflow
    /\ IdleKFold
    /\ IdlePipeline
    /\ IdleHashing
    /\ IdleLoader
    /\ IdleStandardize
    /\ IdleScorer
    /\ IdleErrors
    /\ IdleVocabulary
    /\ IdleKnn
    /\ IdleRandomState

\* vectorizer = CountVectorizer(min_df=1); vectorizer.fit([...])
CountVectorizerFitCell ==
    /\ pc = "count_fit"
    /\ objects' = [objects EXCEPT !["vectorizer"] = Fit(New("CountVectorizer"), 1)]
    /\ pc' = "count_transform"
    /\ UNCHANGED <<X, X_train, X_test, call_log, fnames, range_next, loop_i,
                   rnd_idx, documents, wfVars, kfVars, plVars, rsVars, knnVars, vocVars, errVars, scVars, stdVars, ldVars, hashVars>>

\* X = vectorizer.transform([...])
CountVectorizerTransformCell ==
    /\ pc = "count_transform"
    /\ call_log' = Append(call_log,
           MethodCall("vectorizer", "transform", objects["vectorizer"]))
    /\ pc' = After(objects["vectorizer"], "hash_transform")
    /\ UNCHANGED <<X, X_train, X_test, objects, fnames, range_next, loop_i,
                   rnd_idx, documents, wfVars, kfVars, plVars, rsVars, knnVars, vocVars, errVars, scVars, stdVars, ldVars, hashVars>>

\* h_vectorizer = HashingVectorizer(...); h_vectorizer.transform(docs_train)
HashingTransformCell ==
    /\ pc = "hash_transform"
    /\ objects' = [objects EXCEPT !["h_vectorizer"] = New("HashingVectorizer")]
    /\ call_log' = Append(call_log,
           MethodCall("h_vectorizer", "transform", New("HashingVectorizer")))
    /\ pc' = After(New("HashingVectorizer"), "hash_fit")
    /\ UNCHANGED <<X, X_train, X_test, fnames, range_next, loop_i, rnd_idx,
                   documents, wfVars, kfVars, plVars, rsVars, knnVars, vocVars, errVars, scVars, stdVars, ldVars, hashVars>>

\* h_vec = HashingVectorizer(...); h_vec.fit(docs_train, y_train)
HashingFitCell ==
    /\ pc = "hash_fit"
    /\ objects' = [objects EXCEPT
           !["h_vec"] = Fit(New("HashingVectorizer"), Len(fnames))]
    /\ pc' = "batch_train"
    /\ UNCHANGED <<X, X_train, X_test, call_log, fnames, range_next, loop_i,
                   rnd_idx, documents, wfVars, kfVars, plVars, rsVars, knnVars, vocVars, errVars, scVars, stdVars, ldVars, hashVars>>

\* a loop counter that is the loop variable itself: after the first pass
\* the next value is one more than what the body left in i
RangeValueFromLoopVar(next, i) == IF next = 0 THEN 0 ELSE i + 1

\* the next value of "for i in range(iterations)": range keeps its own
\* position, whatever the body of the loop has assigned to i
RangeValue(next, i) == next

\* sgd = SGDClassifier(...); batch_train(clf=sgd, ...) is entered:
\* vec = HashingVectorizer(...); c_clf = clone(clf)
BatchTrainEnter ==
    /\ pc = "batch_train"
    /\ objects' = [objects EXCEPT !["sgd"] = New("SGDClassifier"),
                                  !["vec"] = New("HashingVectorizer"),
                                  !["c_clf"] = New("SGDClassifier")]
    /\ range_next' = 0
    /\ pc' = "outer"
    /\ UNCHANGED <<X, X_train, X_test, call_log, fnames, loop_i, rnd_idx,
                   documents, wfVars, kfVars, plVars, rsVars, knnVars, vocVars, errVars, scVars, stdVars, ldVars, hashVars>>

\* for i in range(iterations): rnd_idx = rng.choice(idx, size=batchsize);
\* documents = []
OuterLoop ==
    /\ pc = "outer"
    /\ RangeValue(range_next, loop_i) < iterations
    /\ loop_i' = RangeValue(range_next, loop_i)
    /\ range_next' = RangeValue(range_next, loop_i) + 1
    /\ rnd_idx' \in [1..batchsize -> 0..(Len(fnames) - 1)]
    /\ documents' = <<>>
    /\ pc' = "inner"
    /\ UNCHANGED <<X, X_train, X_test, objects, call_log, fnames, wfVars,
                   kfVars, plVars, rsVars, knnVars, vocVars, errVars, scVars, stdVars, ldVars, hashVars>>

\* for i in rnd_idx: documents.append(open(fnames[i]).read())
InnerLoop ==
    /\ pc = "inner"
    /\ Len(documents) < Len(rnd_idx)
    /\ loop_i' = rnd_idx[Len(documents) + 1]
    /\ documents' = Append(documents, fnames[rnd_idx[Len(documents) + 1] + 1])
    /\ UNCHANGED <<pc, X, X_train, X_test, objects, call_log, fnames,
                   range_next, rnd_idx, wfVars, kfVars, plVars, rsVars, knnVars, vocVars, errVars, scVars, stdVars, ldVars, hashVars>>

\* X_batch = vec.transform(documents); c_clf.partial_fit(X_batch, ...)
BatchPartialFit ==
    /\ pc = "inner"
    /\ Len(documents) = Len(rnd_idx)
    /\ call_log' = Append(call_log, MethodCall("vec", "transform", objects["vec"]))
    /\ objects' = IF Outcome(objects["vec"]) = "result"
                  THEN [objects EXCEPT !["c_clf"] = PartialFit(@, Len(documents))]
                  ELSE objects
    /\ pc' = After(objects["vec"], "outer")
    /\ UNCHANGED <<X, X_train, X_test, fnames, range_next, loop_i, rnd_idx,
                   documents, wfVars, kfVars, plVars, rsVars, knnVars, vocVars, errVars, scVars, stdVars, ldVars, hashVars>>

\* return c_clf, assigned to sgd
BatchTrainReturn ==
    /\ pc = "outer"
    /\ RangeValue(range_next, loop_i) >= iterations
    /\ objects' = [objects EXCEPT !["sgd"] = objects["c_clf"]]
    /\ pc' = "score"
    /\ UNCHANGED <<X, X_train, X_test, call_log, fnames, range_next, loop_i,
                   rnd_idx, documents, wfVars, kfVars, plVars, rsVars, knnVars, vocVars, errVars, scVars, stdVars, ldVars, hashVars>>

\* vec = HashingVectorizer(...); sgd.score(vec.transform(docs_test), y_test)
ScoreCell ==
    /\ pc = "score"
    /\ objects' = [objects EXCEPT !["vec"] = New("HashingVectorizer")]
    /\ LET transformed == MethodCall("vec", "transform", New("HashingVectorizer"))
           scored      == MethodCall("sgd", "score", objects["sgd"])
       IN  IF transformed.outcome = "result"
           THEN /\ call_log' = call_log \o <<transformed, scored>>
                /\ pc' = After(objects["sgd"], "done")
           ELSE /\ call_log' = Append(call_log, transformed)
                /\ pc' = "raised"
    /\ UNCHANGED <<X, X_train, X_test, fnames, range_next, loop_i, rnd_idx,
                   documents, wfVars, kfVars, plVars, rsVars, knnVars, vocVars, errVars, scVars, stdVars, ldVars, hashVars>>

NextOutOfCore ==
    \/ CountVectorizerFitCell
    \/ CountVectorizerTransformCell
    \/ HashingTransformCell
    \/ HashingFitCell
    \/ BatchTrainEnter
    \/ OuterLoop
    \/ InnerLoop
    \/ BatchPartialFit
    \/ BatchTrainReturn
    \/ ScoreCell

SpecOutOfCore == InitOutOfCore /\ [][NextOutOfCore]_vars

\* C25: batch_train hands partial_fit one batch of batchsize documents per
\* iteration, and the classifier it returns has been trained on iterations
\* batches, that is on iterations x batchsize documents (25 x 1000 = 25000
\* with the defaults).
C25_TrainsOnIterationsTimesBatchsize ==
    /\ pc \in {"outer", "inner"} =>
          /\ objects["c_clf"].docs_seen =
                objects["c_clf"].partial_fit_calls * batchsize
          /\ Len(rnd_idx) \in {0, batchsize}
    /\ pc \in {"score", "done"} =>
          /\ objects["sgd"].partial_fit_calls = iterations
          /\ objects["sgd"].docs_seen = iterations * batchsize

\* batch_train has returned a classifier trained on every batch, and the
\* last batch held a document twice
C25_Witness ==
    /\ pc = "done"
    /\ objects["sgd"].partial_fit_calls = iterations
    /\ objects["sgd"].docs_seen = iterations * batchsize
    /\ Len(documents) = batchsize
    /\ Cardinality(Range(documents)) < batchsize

\* the steps batch_train still has to take: the passes of the inner loop
\* and the partial_fit of the batch at hand, then the batches to come with
\* their draw, their batchsize reads and their partial_fit, then the return
StepsLeft ==
    IF pc = "outer"
    THEN (iterations - range_next) * (batchsize + 2) + 1
    ELSE IF pc = "inner"
    THEN (iterations - range_next) * (batchsize + 2) + 1
            + (batchsize - Len(documents)) + 1
    ELSE 0

\* what a step taken inside batch_train does
BatchTrainStep ==
    pc \in {"outer", "inner"} =>
        /\ StepsLeft' < StepsLeft
        /\ StepsLeft' >= 0
        /\ pc' \in {"outer", "inner", "score"}
        /\ pc' = "outer" =>
              objects'["c_clf"].partial_fit_calls = range_next'
        /\ pc' = "score" =>
              objects'["sgd"].partial_fit_calls = iterations

\* C27: batch_train terminates, and with exactly iterations calls of
\* partial_fit, whatever indices are drawn and although the inner loop
\* assigns to the outer loop's variable i: every step inside batch_train
\* brings it nearer to its return, the number of partial_fit calls is the
\* number of finished passes of the outer loop, and it is iterations when
\* batch_train returns.
C27_TerminatesAfterIterationsCalls == [][BatchTrainStep]_vars

\* batch_train has returned after the inner loop had left in i, in the
\* first pass, an index that is no smaller than iterations
C27_Witness ==
    /\ pc = "score"
    /\ objects["sgd"].partial_fit_calls = iterations
    /\ Len(fnames) > iterations
    /\ loop_i = rnd_idx[batchsize]
    /\ loop_i >= iterations

----------------------------------------------------------------------------
(* Properties of the out-of-core notebook *)

----------------------------------------------------------------------------
(* The cells that split the same data again with the same random_state     *)
(* (model-complexity notebook: the split before the grid search and the    *)
(* split before the single-split search), with a shuffling KFold between   *)
(* them that draws from numpy's global random stream.  A random stream is  *)
(* a fixed sequence of draws per seed; the draws are fixed when first      *)
(* looked at.                                                              *)

\* the random_state arguments of the split cells
Seeds == {1, 123}

\* the seed standing for numpy's global, unseeded stream
GlobalSeed == 0

\* a generator at a position of the stream of its seed
RandomStateAt(seed, pos) == [seed |-> seed, pos |-> pos]

\* a split that draws from the global stream whatever random_state is
CheckRandomStateGlobal(seed, global) == RandomStateAt(GlobalSeed, global)

\* random_state=seed: a new generator at the start of the stream of seed
CheckRandomState(seed, global) == RandomStateAt(seed, 0)

\* the draws already fixed for the stream position of rs
Drawn(rs) == {d \in streams : d.seed = rs.seed /\ d.pos = rs.pos}

\* the shuffles the generator rs may return
Draws(rs, n) ==
    IF Drawn(rs) = {} THEN Shuffles(n) ELSE {d.perm : d \in Drawn(rs)}

\* the global stream moves on when it was the one drawn from
Advance(rs, global) == IF rs.seed = GlobalSeed THEN global + 1 ELSE global

InitSeeded ==
    /\ pc = "resplit"
    /\ \E n \in 2..MaxSeededRows : X = [i \in 1..n |-> 0]
    /\ np_random = 0
    /\ streams = {}
    /\ split_log = <<>>
    /\ X_train = <<>>
    /\ X_test = <<>>
    /\ IdleWorkflow
    /\ IdleKFold
    /\ IdlePipeline
    /\ IdleOutOfCore
    /\ IdleHashing
    /\ IdleLoader
    /\ IdleStandardize
    /\ IdleScorer
    /\ IdleErrors
    /\ IdleVocabulary
    /\ IdleKnn

\* X_train, X_test, ... = train_test_split(X, y, random_state=seed, ...)
SeededSplitCell ==
    /\ pc = "resplit"
    /\ Len(split_log) < MaxRuns
    /\ \E seed \in Seeds, call \in SplitCalls :
          LET rs == CheckRandomState(seed, np_random)
          IN  \E perm \in Draws(rs, Len(X)) :
                 LET parts == TrainTestSplit(Len(X), perm, call)
                 IN  /\ streams' = streams \cup
                            {[seed |-> rs.seed, pos |-> rs.pos, perm |-> perm]}
                     /\ np_random' = Advance(rs, np_random)
                     /\ X_train' = parts.train
                     /\ X_test' = parts.test
                     /\ split_log' = Append(split_log,
                            [seed |-> seed, call |-> call,
                             train |-> parts.train, test |-> parts.test])
    /\ UNCHANGED <<pc, X, wfVars, kfVars, plVars, oocVars, knnVars, vocVars, errVars, scVars, stdVars, ldVars, hashVars>>

\* cv = KFold(n_splits=10, shuffle=True); grid.fit(X_train, y_train): the
\* folds are shuffled with the global stream, which moves on; the folds are
\* used up inside the grid search and no cell reads them afterwards
ShuffledKFoldCell ==
    /\ pc = "resplit"
    /\ split_log # <<>>
    /\ np_random < MaxRuns
    /\ np_random' = Advance(RandomStateAt(GlobalSeed, np_random), np_random)
    /\ UNCHANGED <<pc, X, X_train, X_test, split_log, streams, wfVars, kfVars,
                   plVars, oocVars, knnVars, vocVars, errVars, scVars, stdVars,
                   ldVars, hashVars>>

NextSeeded == SeededSplitCell \/ ShuffledKFoldCell

SpecSeeded == InitSeeded /\ [][NextSeeded]_vars

----------------------------------------------------------------------------
(* The nearest-neighbour regression cells: the model is fit on the         *)
(* training subset and then asked for predictions on the training subset   *)
(* and on the test subset.  With n_neighbors=1 the prediction for a point  *)
(* is the target of the closest stored training point.  The feature is an *)
(* evenly spaced grid and the targets are noisy.                           *)

Abs(a) == IF a < 0 THEN 0 - a ELSE a

\* train_test_split(X, y, test_size=0.25, random_state=42)
KnnSplitCall == [train_size |-> <<>>, test_size |-> <<1, 4>>]

\* kneighbor_regression.fit(X_train, y_train): the training data is stored
KnnFit(data, target, rows) ==
    [fitted |-> TRUE,
     fit_X |-> [i \in DOMAIN rows |-> data[rows[i]]],
     fit_y |-> [i \in DOMAIN rows |-> target[rows[i]]]]

\* the stored point closest to q (the first one on a tie)
Nearest(params, q) ==
    CHOOSE j \in DOMAIN params.fit_X :
        \A m \in DOMAIN params.fit_X :
            \/ Abs(params.fit_X[j] - q) < Abs(params.fit_X[m] - q)
            \/ Abs(params.fit_X[j] - q) = Abs(params.fit_X[m] - q) /\ j <= m

\* kneighbor_regression.predict(X[rows])
KnnPredict(params, data, rows) ==
    [i \in DOMAIN rows |-> params.fit_y[Nearest(params, data[rows[i]])]]

\* a predict that stores the queried points and its own answers as the
\* new training data
KnnRefitOnQuery(params, data, rows) ==
    [fitted |-> TRUE,
     fit_X |-> [i \in DOMAIN rows |-> data[rows[i]]],
     fit_y |-> KnnPredict(params, data, rows)]

\* the stored training data after predict: what fit left
KnnAfterPredict(params, data, rows) == params

InitKnn ==
    /\ pc = "knn_split"
    /\ \E n \in 2..MaxKnnRows :
          /\ X = [i \in 1..n |-> i]
          /\ y \in [1..n -> 0..MaxValue]
          /\ permutation \in Shuffles(n)
    /\ split_call = KnnSplitCall
    /\ X_train = <<>>
    /\ X_test = <<>>
    /\ scaler = NotFitted
    /\ fit_rows = <<>>
    /\ X_train_scaled = <<>>
    /\ X_test_scaled = <<>>
    /\ kneighbor_regression = [fitted |-> FALSE]
    /\ y_pred_train = <<>>
    /\ y_pred_test = <<>>
    /\ IdleKFold
    /\ IdlePipeline
    /\ IdleOutOfCore
    /\ IdleHashing
    /\ IdleLoader
    /\ IdleStandardize
    /\ IdleScorer
    /\ IdleErrors
    /\ IdleVocabulary
    /\ IdleRandomState

\* X_train, X_test, y_train, y_test = train_test_split(X, y, test_size=0.25, ...)
KnnSplitCell ==
    /\ pc = "knn_split"
    /\ LET parts == TrainTestSplit(Len(X), permutation, split_call)
       IN  /\ X_train' = parts.train
           /\ X_test' = parts.test
    /\ pc' = "knn_fit"
    /\ UNCHANGED <<X, wfVars, kfVars, plVars, oocVars, rsVars, knnVars, vocVars, errVars, scVars, stdVars, ldVars, hashVars>>

\* kneighbor_regression = KNeighborsRegressor(n_neighbors=1);
\* kneighbor_regression.fit(X_train, y_train)
KnnFitCell ==
    /\ pc = "knn_fit"
    /\ kneighbor_regression' = KnnFit(X, y, X_train)
    /\ pc' = "knn_predict_train"
    /\ UNCHANGED <<X, X_train, X_test, y, y_pred_train, y_pred_test, wfVars,
                   kfVars, plVars, oocVars, rsVars, vocVars, errVars, scVars, stdVars, ldVars, hashVars>>

\* y_pred_train = kneighbor_regression.predict(X_train)
KnnPredictTrainCell ==
    /\ pc = "knn_predict_train"
    /\ y_pred_train' = KnnPredict(kneighbor_regression, X, X_train)
    /\ kneighbor_regression' = KnnAfterPredict(kneighbor_regression, X, X_train)
    /\ pc' = "knn_predict_test"
    /\ UNCHANGED <<X, X_train, X_test, y, y_pred_test, wfVars, kfVars, plVars,
                   oocVars, rsVars, vocVars, errVars, scVars, stdVars, ldVars, hashVars>>

\* y_pred_test = kneighbor_regression.predict(X_test)
KnnPredictTestCell ==
    /\ pc = "knn_predict_test"
    /\ y_pred_test' = KnnPredict(kneighbor_regression, X, X_test)
    /\ kneighbor_regression' = KnnAfterPredict(kneighbor_regression, X, X_test)
    /\ pc' = "knn_done"
    /\ UNCHANGED <<X, X_train, X_test, y, y_pred_train, wfVars, kfVars, plVars,
                   oocVars, rsVars, vocVars, errVars, scVars, stdVars, ldVars, hashVars>>

NextKnn ==
    \/ KnnSplitCell
    \/ KnnFitCell
    \/ KnnPredictTrainCell
    \/ KnnPredictTestCell

SpecKnn == InitKnn /\ [][NextKnn]_vars

----------------------------------------------------------------------------
(* The vocabulary cells of the out-of-core notebook: at fit time every     *)
(* token of the corpus gets an integer index, stored in vocabulary_; at    *)
(* transform time the vocabulary is used to build the occurrence matrix.   *)
(* The vectorizer is then fit again on a larger corpus.  A document is a   *)
(* sequence of tokens; tokens are numbered in alphabetical order.          *)

Tokens == 1..MaxTokens

\* the documents of at most MaxDocLen tokens
Docs == UNION {[1..n -> Tokens] : n \in 1..MaxDocLen}

TokensOf(documentList) ==
    UNION {Range(documentList[d]) : d \in DOMAIN documentList}

\* vectorizer.fit(corpus): token -> index, in alphabetical order
Vocabulary(documentList) ==
    [t \in TokensOf(documentList) |->
        Cardinality({u \in TokensOf(documentList) : u < t})]

\* the number of times the token of column j occurs in doc
Occurrences(vocab, doc, j) ==
    Cardinality({i \in DOMAIN doc : doc[i] \in DOMAIN vocab /\ vocab[doc[i]] = j})

\* vectorizer.transform(docs).toarray(): one row of counts per document,
\* one column per token of the vocabulary
CountTransform(vocab, documentList) ==
    [d \in DOMAIN documentList |->
        [j \in 0..(Cardinality(DOMAIN vocab) - 1) |->
            Occurrences(vocab, documentList[d], j)]]

\* a transform that adds the tokens it meets to the vocabulary
VocabularyGrown(vocab, documentList) ==
    [t \in DOMAIN vocab \cup TokensOf(documentList) |->
        Cardinality({u \in DOMAIN vocab \cup TokensOf(documentList) : u < t})]

\* the vocabulary after transform: what fit stored
VocabularyAfterTransform(vocab, documentList) == vocab

InitVocabulary ==
    /\ pc = "vec_fit"
    /\ \E d \in Docs : corpus = <<d>>
    /\ vocabulary_ = <<>>
    /\ transform_docs = <<>>
    /\ X = <<>>
    /\ X_train = <<>>
    /\ X_test = <<>>
    /\ IdleWorkflow
    /\ IdleKFold
    /\ IdlePipeline
    /\ IdleOutOfCore
    /\ IdleHashing
    /\ IdleLoader
    /\ IdleStandardize
    /\ IdleScorer
    /\ IdleErrors
    /\ IdleRandomState
    /\ IdleKnn

\* vectorizer = CountVectorizer(min_df=1); vectorizer.fit(corpus)
VocabularyFitCell ==
    /\ pc \in {"vec_fit", "vec_refit"}
    /\ vocabulary_' = Vocabulary(corpus)
    /\ pc' = IF pc = "vec_fit" THEN "vec_transform" ELSE "vec_transform_again"
    /\ UNCHANGED <<X, X_train, X_test, corpus, transform_docs, wfVars, kfVars,
                   plVars, oocVars, rsVars, knnVars, errVars, scVars, stdVars, ldVars, hashVars>>

\* X = vectorizer.transform([the fit document, another document]).toarray();
\* after the refit the same two documents are transformed again
VocabularyTransformCell ==
    /\ pc \in {"vec_transform", "vec_transform_again"}
    /\ \E d \in (IF pc = "vec_transform" THEN Docs ELSE {transform_docs[2]}) :
          LET documentList == <<corpus[1], d>>
          IN  /\ transform_docs' = documentList
              /\ X' = CountTransform(vocabulary_, documentList)
              /\ vocabulary_' = VocabularyAfterTransform(vocabulary_, documentList)
    /\ pc' = IF pc = "vec_transform" THEN "vec_larger_corpus" ELSE "vec_done"
    /\ UNCHANGED <<X_train, X_test, corpus, wfVars, kfVars, plVars, oocVars,
                   rsVars, knnVars, errVars, scVars, stdVars, ldVars, hashVars>>

\* "Let's refit with a slightly larger corpus": one more document
LargerCorpusCell ==
    /\ pc = "vec_larger_corpus"
    /\ \E d \in Docs : corpus' = Append(corpus, d)
    /\ pc' = "vec_refit"
    /\ UNCHANGED <<X, X_train, X_test, vocabulary_, transform_docs, wfVars,
                   kfVars, plVars, oocVars, rsVars, knnVars, errVars, scVars, stdVars, ldVars, hashVars>>

NextVocabulary ==
    \/ VocabularyFitCell
    \/ VocabularyTransformCell
    \/ LargerCorpusCell

SpecVocabulary == InitVocabulary /\ [][NextVocabulary]_vars

\* the tokens of doc that the vocabulary holds, counted with repetition
SeenTokens(doc) ==
    Cardinality({i \in DOMAIN doc : doc[i] \in DOMAIN vocabulary_})

RECURSIVE RowSum(_, _)
RowSum(row, width) ==
    IF width = 0 THEN 0 ELSE row[width - 1] + RowSum(row, width - 1)

----------------------------------------------------------------------------
(* batch_train when a training file cannot be opened: open() raises inside *)
(* the inner loop, and batch_train has no exception handler.               *)

InitBatchError ==
    /\ pc = "batch_train"
    /\ objects = [o \in ObjectNames |-> NoObject]
    /\ call_log = <<>>
    /\ \E n \in 1..MaxFiles :
          /\ fnames = [j \in 1..n |-> j - 1]
          /\ missing \in SUBSET (0..(n - 1))
    /\ raised = <<>>
    /\ range_next = 0
    /\ loop_i = 0
    /\ rnd_idx = <<>>
    /\ documents = <<>>
    /\ X = <<>>
    /\ X_train = <<>>
    /\ X_test = <<>>
    /\ IdleWorkflow
    /\ IdleKFold
    /\ IdlePipeline
    /\ IdleRandomState
    /\ IdleKnn
    /\ IdleVocabulary
    /\ IdleScorer
    /\ IdleStandardize
    /\ IdleLoader
    /\ IdleHashing

\* the next pass of the inner loop, when open(fnames[i]) succeeds
InnerLoopRead ==
    /\ pc = "inner"
    /\ Len(documents) < Len(rnd_idx)
    /\ fnames[rnd_idx[Len(documents) + 1] + 1] \notin missing
    /\ InnerLoop

\* an inner loop that logs the failure of open() and goes on with an empty
\* document
OpenFailsSkipped ==
    /\ pc = "inner"
    /\ Len(documents) < Len(rnd_idx)
    /\ fnames[rnd_idx[Len(documents) + 1] + 1] \in missing
    /\ loop_i' = rnd_idx[Len(documents) + 1]
    /\ raised' = [error |-> "FileNotFoundError",
                  file |-> fnames[rnd_idx[Len(documents) + 1] + 1],
                  batch |-> range_next, at |-> Len(documents) + 1]
    /\ documents' = Append(documents, fnames[rnd_idx[Len(documents) + 1] + 1])
    /\ UNCHANGED <<pc, X, X_train, X_test, objects, call_log, fnames,
                   range_next, rnd_idx, missing, wfVars, kfVars, plVars,
                   rsVars, knnVars, vocVars, scVars, stdVars, ldVars, hashVars>>

\* the next pass of the inner loop, when open(fnames[i]) raises: the
\* exception leaves both loops and batch_train
OpenFails ==
    /\ pc = "inner"
    /\ Len(documents) < Len(rnd_idx)
    /\ fnames[rnd_idx[Len(documents) + 1] + 1] \in missing
    /\ loop_i' = rnd_idx[Len(documents) + 1]
    /\ raised' = [error |-> "FileNotFoundError",
                  file |-> fnames[rnd_idx[Len(documents) + 1] + 1],
                  batch |-> range_next, at |-> Len(documents) + 1]
    /\ pc' = "raised"
    /\ UNCHANGED <<X, X_train, X_test, objects, call_log, fnames, range_next,
                   rnd_idx, documents, missing, wfVars, kfVars, plVars,
                   rsVars, knnVars, vocVars, scVars, stdVars, ldVars, hashVars>>

NextBatchError ==
    \/ BatchTrainEnter
    \/ OuterLoop
    \/ InnerLoopRead
    \/ OpenFails
    \/ BatchPartialFit
    \/ BatchTrainReturn
    \/ ScoreCell

SpecBatchError == InitBatchError /\ [][NextBatchError]_vars

\* C16: when open() raises in batch_train the exception reaches the caller
\* and nothing runs after it: the failed open is not tried again, the batch
\* is not completed, partial_fit is not called for it, no classifier is
\* returned and nothing is scored; and batch_train ends in an exception
\* only when a stage has raised.
C16_ErrorStopsTheRun ==
    /\ pc = "raised" <=> raised # <<>>
    /\ \A d \in Range(documents) : d \notin missing
    /\ raised # <<>> =>
          /\ raised.file \in missing
          /\ Len(documents) = raised.at - 1
          /\ range_next = raised.batch
          /\ objects["c_clf"].partial_fit_calls = raised.batch - 1
          /\ objects["sgd"].partial_fit_calls = 0
          /\ \A j \in DOMAIN call_log : call_log[j].method # "score"
          /\ Len(call_log) = raised.batch - 1

\* open() has raised in the second batch, after a first batch was trained
\* on and after a document of the second batch was read
C16_Witness ==
    /\ pc = "raised"
    /\ raised # <<>>
    /\ raised.batch = 2
    /\ raised.at > 1
    /\ objects["c_clf"].partial_fit_calls = 1

----------------------------------------------------------------------------
(* The accuracy computations: np.sum(pred_y == test_y) / float(len(test_y)) *)
(* and np.mean(est.predict(X) == y).  The comparison is numpy's elementwise *)
(* ==, which broadcasts an array of length one against the other array.    *)
(* For two lengths that cannot be broadcast the result depends on the      *)
(* numpy version: the scalar False, or a ValueError.                       *)

Labels == {0, 1}

\* the arrays of at most MaxScoreLen labels
LabelArrays == UNION {[1..n -> Labels] : n \in 0..MaxScoreLen}

\* whether numpy can compare a and b elementwise
Broadcastable(a, b) == Len(a) = Len(b) \/ Len(a) = 1 \/ Len(b) = 1

\* the length of a == b
BroadcastLen(a, b) == IF Len(a) = 1 THEN Len(b) ELSE Len(a)

\* element i of a once a is stretched to the common length
Stretched(a, i) == IF Len(a) = 1 THEN a[1] ELSE a[i]

\* np.sum(a != b): the positions that differ are counted instead
Mismatches(a, b) ==
    Cardinality({i \in 1..BroadcastLen(a, b) : Stretched(a, i) # Stretched(b, i)})

\* np.sum(a == b) for arrays that can be compared
Matches(a, b) ==
    Cardinality({i \in 1..BroadcastLen(a, b) : Stretched(a, i) = Stretched(b, i)})

\* a float: a value num / den, or nan for 0 / 0
Float(num, den) ==
    IF den = 0
    THEN [outcome |-> "nan"]
    ELSE [outcome |-> "value", num |-> num, den |-> den]

Raise(error) == [outcome |-> error]

\* np.sum(pred_y == test_y) / float(len(test_y))
Accuracy(pred, test, onMismatch) ==
    IF Broadcastable(pred, test) THEN Float(Matches(pred, test), Len(test))
    ELSE IF onMismatch = "False" THEN Float(0, Len(test))
    ELSE Raise("ValueError")

\* np.mean(est.predict(X) == y)
MyAccuracyScoring(pred, test, onMismatch) ==
    IF Broadcastable(pred, test)
    THEN Float(Matches(pred, test), BroadcastLen(pred, test))
    ELSE IF onMismatch = "False" THEN Float(0, 1)
    ELSE Raise("ValueError")

InitScorer ==
    /\ pc = "score_call"
    /\ pred_y \in LabelArrays
    /\ test_y \in LabelArrays
    /\ accuracy = <<>>
    /\ X = <<>>
    /\ X_train = <<>>
    /\ X_test = <<>>
    /\ IdleWorkflow
    /\ IdleKFold
    /\ IdlePipeline
    /\ IdleOutOfCore
    /\ IdleHashing
    /\ IdleLoader
    /\ IdleStandardize
    /\ IdleRandomState
    /\ IdleKnn
    /\ IdleVocabulary
    /\ IdleErrors

\* print(np.sum(pred_y == test_y) / float(len(test_y)))
AccuracyCell ==
    /\ pc = "score_call"
    /\ \E onMismatch \in {"False", "ValueError"} :
          accuracy' = [by |-> "accuracy",
                       result |-> Accuracy(pred_y, test_y, onMismatch)]
    /\ pc' = "scored"
    /\ UNCHANGED <<X, X_train, X_test, pred_y, test_y, wfVars, kfVars, plVars,
                   oocVars, rsVars, knnVars, vocVars, errVars, stdVars, ldVars, hashVars>>

\* my_accuracy_scoring(est, X, y)
MyAccuracyScoringCall ==
    /\ pc = "score_call"
    /\ \E onMismatch \in {"False", "ValueError"} :
          accuracy' = [by |-> "my_accuracy_scoring",
                       result |-> MyAccuracyScoring(pred_y, test_y, onMismatch)]
    /\ pc' = "scored"
    /\ UNCHANGED <<X, X_train, X_test, pred_y, test_y, wfVars, kfVars, plVars,
                   oocVars, rsVars, knnVars, vocVars, errVars, stdVars, ldVars, hashVars>>

NextScorer == AccuracyCell \/ MyAccuracyScoringCall

SpecScorer == InitScorer /\ [][NextScorer]_vars

EqualPositions(a, b) == {i \in DOMAIN a : a[i] = b[i]}

\* C21: for predicted and true targets of the same, non-zero length the
\* accuracy is the number of positions at which they are equal divided by
\* that length; predicted = [1,0,1,1] against true = [1,0,0,1] gives 3/4.
C21_AccuracyIsFractionCorrect ==
    (pc = "scored" /\ Len(pred_y) = Len(test_y) /\ Len(test_y) > 0) =>
        /\ accuracy.result.outcome = "value"
        /\ accuracy.result.num * Len(test_y) =
               Cardinality(EqualPositions(pred_y, test_y)) * accuracy.result.den
        /\ (pred_y = <<1, 0, 1, 1>> /\ test_y = <<1, 0, 0, 1>>) =>
               accuracy.result.num * 4 = 3 * accuracy.result.den

\* the accuracy of [1,0,1,1] against [1,0,0,1] was computed as 3/4 by the
\* expression of notebook 04
C21_Witness ==
    /\ pc = "scored"
    /\ pred_y = <<1, 0, 1, 1>>
    /\ test_y = <<1, 0, 0, 1>>
    /\ accuracy.by = "accuracy"
    /\ accuracy.result = Float(3, 4)

----------------------------------------------------------------------------
(* The hand-written standardization cell:                                  *)
(* ary_standardized = (ary - ary.mean()) / ary.std().  The division is     *)
(* numpy's float division, which gives nan for 0 / 0 instead of raising.   *)

\* all positions of a, in order
AllRows(a) == [i \in DOMAIN a |-> i]

\* numpy's float division of the exact quotient q.num / sqrt(q.den2); the
\* numerator is 0 whenever the standard deviation is 0
FloatDivide(q) ==
    IF q.den2 = 0
    THEN [outcome |-> "nan"]
    ELSE [outcome |-> "value", num |-> q.num, den2 |-> q.den2]

InitStandardize ==
    /\ pc = "standardize"
    /\ \E n \in 1..MaxAryLen : ary \in [1..n -> 0..MaxAryValue]
    /\ ary_standardized = <<>>
    /\ X = <<>>
    /\ X_train = <<>>
    /\ X_test = <<>>
    /\ IdleWorkflow
    /\ IdleKFold
    /\ IdlePipeline
    /\ IdleOutOfCore
    /\ IdleHashing
    /\ IdleLoader
    /\ IdleRandomState
    /\ IdleKnn
    /\ IdleVocabulary
    /\ IdleErrors
    /\ IdleScorer

\* ary_standardized = (ary - ary.mean()) / ary.std()
StandardizeCell ==
    /\ pc = "standardize"
    /\ ary_standardized' =
          [i \in DOMAIN ary |->
              FloatDivide(Standardize(ary[i], ScalerFit(ary, AllRows(ary))))]
    /\ pc' = "standardized"
    /\ UNCHANGED <<X, X_train, X_test, ary, wfVars, kfVars, plVars, oocVars,
                   rsVars, knnVars, vocVars, errVars, scVars, ldVars, hashVars>>

NextStandardize == StandardizeCell

SpecStandardize == InitStandardize /\ [][NextStandardize]_vars

Numerators(a) == [i \in DOMAIN a |-> a[i].num]
SquaredNumerators(a) == [i \in DOMAIN a |-> a[i].num * a[i].num]

\* lo/1000 <= q.num / sqrt(q.den2) <= hi/1000 for 0 <= lo <= hi
Within(q, lo, hi) ==
    /\ q.num >= 0
    /\ lo * lo * q.den2 <= 1000000 * q.num * q.num
    /\ 1000000 * q.num * q.num <= hi * hi * q.den2

\* the value of q is minus a value between lo/1000 and hi/1000
WithinNegated(q, lo, hi) == Within([q EXCEPT !.num = 0 - q.num], lo, hi)

\* C23: standardizing an array whose values are not all equal gives values
\* of mean 0 and standard deviation 1 (sum of the values 0, sum of their
\* squares equal to the length); [1,2,3,4,5] becomes about
\* [-1.41, -0.71, 0.0, 0.71, 1.41].
C23_StandardizedMeanZeroStdOne ==
    (pc = "standardized" /\ \E i, j \in DOMAIN ary : ary[i] # ary[j]) =>
        /\ \A i \in DOMAIN ary_standardized :
               /\ ary_standardized[i].outcome = "value"
               /\ ary_standardized[i].den2 = ary_standardized[1].den2
        /\ SumOver(Numerators(ary_standardized), AllRows(ary)) = 0
        /\ SumOver(SquaredNumerators(ary_standardized), AllRows(ary)) =
               Len(ary) * ary_standardized[1].den2
        /\ ary = <<1, 2, 3, 4, 5>> =>
               /\ WithinNegated(ary_standardized[1], 1405, 1415)
               /\ WithinNegated(ary_standardized[2], 705, 715)
               /\ Within(ary_standardized[3], 0, 0)
               /\ Within(ary_standardized[4], 705, 715)
               /\ Within(ary_standardized[5], 1405, 1415)

\* the array of the notebook, [1,2,3,4,5], was standardized
C23_Witness ==
    /\ pc = "standardized"
    /\ ary = <<1, 2, 3, 4, 5>>
    /\ ary_standardized[1] = [outcome |-> "value", num |-> 0 - 10, den2 |-> 50]
    /\ ary_standardized[5] = [outcome |-> "value", num |-> 10, den2 |-> 50]

----------------------------------------------------------------------------
(* The SMS loader cell: the file is opened, every line is stripped and     *)
(* split at tabs, text is the second field of every line and y says        *)
(* whether the first field is "spam".  A line always has at least one      *)
(* field; what the fields after the first hold plays no part.              *)

\* line.strip().split("\t") for a line with the given first field and
\* number of fields
SplitLine(first, nfields) ==
    [j \in 1..nfields |-> IF j = 1 THEN first ELSE "text"]

SplitLines ==
    {SplitLine(first, nf) : first \in {"ham", "spam"}, nf \in 1..MaxFields}

\* the files the loader may meet: missing, or with at most MaxLines lines
Files ==
    {[exists |-> FALSE, content |-> <<>>]} \cup
    {[exists |-> TRUE, content |-> c] :
        c \in UNION {[1..n -> SplitLines] : n \in 0..MaxLines}}

\* x[j] with Python's 0-based index: an IndexError beyond the last field
HasField(x, j) == j + 1 <= Len(x)

InitLoader ==
    /\ pc = "open"
    /\ file \in Files
    /\ lines = <<>>
    /\ text = <<>>
    /\ y = <<>>
    /\ raised = <<>>
    /\ missing = {}
    /\ kneighbor_regression = [fitted |-> FALSE]
    /\ y_pred_train = <<>>
    /\ y_pred_test = <<>>
    /\ X = <<>>
    /\ X_train = <<>>
    /\ X_test = <<>>
    /\ IdleWorkflow
    /\ IdleKFold
    /\ IdlePipeline
    /\ IdleOutOfCore
    /\ IdleHashing
    /\ IdleRandomState
    /\ IdleVocabulary
    /\ IdleScorer
    /\ IdleStandardize

\* with open(...) as f: lines = [line.strip().split("\t") for line in f.readlines()]
OpenCell ==
    /\ pc = "open"
    /\ IF file.exists
       THEN /\ lines' = file.content
            /\ pc' = "text"
            /\ UNCHANGED raised
       ELSE /\ raised' = [error |-> "FileNotFoundError"]
            /\ pc' = "raised"
            /\ UNCHANGED lines
    /\ UNCHANGED <<X, X_train, X_test, y, kneighbor_regression, y_pred_train,
                   y_pred_test, missing, file, text, wfVars, kfVars, plVars,
                   oocVars, rsVars, vocVars, scVars, stdVars, hashVars>>

\* text = [x[1] for x in lines]
TextCell ==
    /\ pc = "text"
    /\ IF \A i \in DOMAIN lines : HasField(lines[i], 1)
       THEN /\ text' = [i \in DOMAIN lines |-> lines[i][2]]
            /\ pc' = "y"
            /\ UNCHANGED raised
       ELSE /\ raised' = [error |-> "IndexError"]
            /\ pc' = "raised"
            /\ UNCHANGED text
    /\ UNCHANGED <<X, X_train, X_test, y, kneighbor_regression, y_pred_train,
                   y_pred_test, missing, file, lines, wfVars, kfVars, plVars,
                   oocVars, rsVars, vocVars, scVars, stdVars, hashVars>>

\* y = [int(x[0] == "spam") for x in lines]
YCell ==
    /\ pc = "y"
    /\ y' = [i \in DOMAIN lines |-> IF lines[i][1] = "spam" THEN 1 ELSE 0]
    /\ pc' = "loaded"
    /\ UNCHANGED <<X, X_train, X_test, kneighbor_regression, y_pred_train,
                   y_pred_test, errVars, ldVars, wfVars, kfVars, plVars,
                   oocVars, rsVars, vocVars, scVars, stdVars, hashVars>>

NextLoader == OpenCell \/ TextCell \/ YCell

SpecLoader == InitLoader /\ [][NextLoader]_vars

\* the rows of the file do not all have the same number of fields
Ragged(content) ==
    \E i, j \in DOMAIN content : Len(content[i]) # Len(content[j])

\* C20: from a missing file, or from a file whose rows differ in their
\* number of fields, the loader fails and produces no dataset.
C20_BadInputFails ==
    (~file.exists \/ Ragged(file.content)) => pc # "loaded"

----------------------------------------------------------------------------
(* The hashing-trick cell: for every word of the sentence the loop prints  *)
(* murmurhash3_bytes_u32(word, 0) % 2 ** 20.  The hash function is library *)
(* code; it is taken as some fixed function from words to unsigned 32-bit  *)
(* values.  Such a value is kept as its two 16-bit halves.                 *)

\* the words of "the cat sat on the mat"
WordList == <<"the", "cat", "sat", "on", "mat">>

Words == {WordList[i] : i \in 1..MaxWords}

\* the sentences of at most MaxSentenceLen words
Sentences == UNION {[1..n -> Words] : n \in 1..MaxSentenceLen}

\* unsigned 32-bit values at and around the edges of the modulus
U32Values == {<<hi, lo>> : hi \in {0, 16, 65535}, lo \in {0, 65535}}

\* 2 ** 20
n_features == 2 ^ 20

\* h % 2 ** 21: one bit too many is kept
FeatureIndexWide(h) == (h[1] % 32) * 65536 + h[2]

\* h % 2 ** 20 for h = h[1] * 2 ** 16 + h[2]
FeatureIndex(h) == (h[1] % 16) * 65536 + h[2]

InitHashing ==
    /\ pc = "hash_loop"
    /\ murmurhash3 \in [Words -> U32Values]
    /\ sentence \in Sentences
    /\ printed = <<>>
    /\ X = <<>>
    /\ X_train = <<>>
    /\ X_test = <<>>
    /\ IdleWorkflow
    /\ IdleKFold
    /\ IdlePipeline
    /\ IdleOutOfCore
    /\ IdleLoader
    /\ IdleStandardize
    /\ IdleScorer
    /\ IdleErrors
    /\ IdleVocabulary
    /\ IdleKnn
    /\ IdleRandomState

\* one pass of "for word in ...split()": the word and its index are printed
HashLoop ==
    /\ pc = "hash_loop"
    /\ Len(printed) < Len(sentence)
    /\ LET word == sentence[Len(printed) + 1]
       IN  printed' = Append(printed,
               [word |-> word, index |-> FeatureIndex(murmurhash3[word])])
    /\ UNCHANGED <<pc, X, X_train, X_test, murmurhash3, sentence, wfVars,
                   kfVars, plVars, oocVars, rsVars, knnVars, vocVars, errVars,
                   scVars, stdVars, ldVars>>

\* the sentence has no word left
HashLoopExit ==
    /\ pc = "hash_loop"
    /\ Len(printed) = Len(sentence)
    /\ pc' = "hashed"
    /\ UNCHANGED <<X, X_train, X_test, hashVars, wfVars, kfVars, plVars,
                   oocVars, rsVars, knnVars, vocVars, errVars, scVars,
                   stdVars, ldVars>>

NextHashing == HashLoop \/ HashLoopExit

SpecHashing == InitHashing /\ [][NextHashing]_vars

\* C26: every printed feature index lies in 0 .. 2**20 - 1, and a word
\* gets the same index wherever it stands in the sentence, whatever words
\* were hashed before it.
C26_IndexInRangeAndStateless ==
    /\ \A i \in DOMAIN printed :
          /\ 0 <= printed[i].index
          /\ printed[i].index < n_features
    /\ \A i, j \in DOMAIN printed :
          printed[i].word = printed[j].word =>
              printed[i].index = printed[j].index

\* a word was hashed twice with another word in between, and it got the
\* largest index both times
C26_Witness ==
    /\ pc = "hashed"
    /\ Len(printed) = 3
    /\ printed[1].word = printed[3].word
    /\ printed[2].word # printed[1].word
    /\ printed[1].index = n_features - 1
    /\ printed[3].index = n_features - 1
    /\ printed[2].index # printed[1].index

====
